---- MODULE Spec2Model ----
(***************************************************************************)
(* Model of the x8h7 reset/boot-mode platform driver (x8h7_reset.c).       *)
(*                                                                         *)
(* The driver owns two GPIO lines, "nrst" and "boot0".  Line values go     *)
(* through gpiod_set_value / gpiod_get_value, which take the polarity of   *)
(* the line into account: the model keeps the electrical level of each     *)
(* line (phys) and its polarity (al) and converts on every access.         *)
(* probe, remove, the sysfs show and the sysfs store are modelled one      *)
(* line access per step, so that concurrent callers interleave the way     *)
(* they can on the real device.                                             *)
(***************************************************************************)
EXTENDS Integers, Sequences, FiniteSets, TLC

VARIABLES
    pc,         \* position of the driver core: probe / bound / remove
    al,         \* al[l]: line l is active-low (device tree flag)
    phys,       \* phys[l]: electrical level of line l
    held,       \* lines currently requested (devm-managed descriptors)
    data,       \* struct x8h7_rst_data: state of the two descriptor fields
    drvdata,    \* platform drvdata points at data
    published,  \* the sysfs attribute group exists and accepts new calls
    probeRet,   \* return value of the last probe
    probeLog,   \* values the current/last probe drove, in order
    lastCmd,    \* history: what last settled the lines: "probe", "store0",
                \* "store1"; "busy" while one store runs, "racing" once two
                \* stores have overlapped
    caller      \* per caller: position inside show / store and its locals

vars == <<pc, al, phys, held, data, drvdata, published, probeRet, probeLog,
          lastCmd, caller>>

-----------------------------------------------------------------------------
(* Bounds of the model *)

\* number of concurrent users of the sysfs attribute
NumCallers == 2

\* width in bits of long / unsigned long long in the model of kstrtol
LongBits == 8

Callers == 1..NumCallers

Lines == {"nrst", "boot0"}

-----------------------------------------------------------------------------
(* errno values *)

ENOENT == 2
ENOMEM == 12
EBUSY == 16
EEXIST == 17
EINVAL == 22
ERANGE == 34

\* errors the GPIO provider may answer when the line is free
AcqErrors == {ENOENT, EBUSY}

\* errors sysfs_create_group may answer
PublishErrors == {ENOMEM, EEXIST}

-----------------------------------------------------------------------------
(* gpiod accessors: logical value <-> electrical level *)

\* gpiod_set_value(desc, value): the level the line is driven to
RawOf(active_low, value) == IF active_low THEN 1 - value ELSE value

\* gpiod_get_value(desc): the logical value read back from the level
LogicalOf(active_low, level) == IF active_low THEN 1 - level ELSE level

\* gpiod_is_active_low(desc)
gpiod_is_active_low(l) == al[l]

gpiod_get_value(l) == LogicalOf(al[l], phys[l])

\* devm_gpiod_get(..., GPIOD_OUT_HIGH): output, logical value 1
GPIOD_OUT_HIGH == 1

-----------------------------------------------------------------------------
(* kstrtol(buf, 10, &value) on a buffer of characters *)

DigitChars == <<"0", "1", "2", "3", "4", "5", "6", "7", "8", "9">>

IsDigit(c) == \E i \in 1..10 : DigitChars[i] = c

DigitVal(c) == (CHOOSE i \in 1..10 : DigitChars[i] = c) - 1

RECURSIVE Pow2(_)
Pow2(n) == IF n = 0 THEN 1 ELSE 2 * Pow2(n - 1)

ULLONG_MAX == Pow2(LongBits) - 1
LLONG_MAX == Pow2(LongBits - 1) - 1

\* _parse_integer: consume leading decimal digits, accumulate modulo 2^w,
\* remember an overflow
RECURSIVE ParseInteger(_, _, _, _)
ParseInteger(s, n, res, ovf) ==
    IF n < Len(s) /\ IsDigit(s[n + 1])
    THEN LET val == DigitVal(s[n + 1])
         IN  ParseInteger(s, n + 1,
                          (res * 10 + val) % (ULLONG_MAX + 1),
                          ovf \/ res > (ULLONG_MAX - val) \div 10)
    ELSE [n |-> n, res |-> res, ovf |-> ovf]

\* _kstrtoull
kstrtoull_(s) ==
    LET p    == ParseInteger(s, 0, 0, FALSE)
        rest == SubSeq(s, p.n + 1, Len(s))
        tail == IF rest # <<>> /\ rest[1] = "\n" THEN Tail(rest) ELSE rest
    IN  IF p.ovf THEN [err |-> ERANGE, value |-> 0]
        ELSE IF p.n = 0 THEN [err |-> EINVAL, value |-> 0]
        ELSE IF tail # <<>> THEN [err |-> EINVAL, value |-> 0]
        ELSE [err |-> 0, value |-> p.res]

\* kstrtoull: one optional leading '+'
kstrtoull(s) == IF s # <<>> /\ s[1] = "+" THEN kstrtoull_(Tail(s)) ELSE kstrtoull_(s)

\* kstrtoll (kstrtol on a 64-bit kernel)
kstrtol(s) ==
    IF s # <<>> /\ s[1] = "-"
    THEN LET r == kstrtoull_(Tail(s))
         IN  IF r.err # 0 THEN r
             ELSE IF r.value > LLONG_MAX + 1 THEN [err |-> ERANGE, value |-> 0]
             ELSE [err |-> 0, value |-> 0 - r.value]
    ELSE LET r == kstrtoull(s)
         IN  IF r.err # 0 THEN r
             ELSE IF r.value > LLONG_MAX THEN [err |-> ERANGE, value |-> 0]
             ELSE r

\* the buffers callers write to the attribute
Inputs ==
    { <<"0">>, <<"1">>, <<"1", "\n">>, <<"5">>, <<"-", "1">>, <<"x">>, <<>>,
      <<"3", "0", "0">> }

-----------------------------------------------------------------------------
(* sysfs_emit(buf, "%d\n", reported_mode) *)

RECURSIVE FormatNat(_)
FormatNat(n) ==
    IF n < 10 THEN <<DigitChars[n + 1]>>
    ELSE FormatNat(n \div 10) \o <<DigitChars[(n % 10) + 1]>>

sysfs_emit(n) ==
    (IF n < 0 THEN <<"-">> \o FormatNat(0 - n) ELSE FormatNat(n)) \o <<"\n">>

-----------------------------------------------------------------------------
(* The pure pieces of the driver *)

DataValid_unchecked == TRUE

\* the guard opening x8h7_reset_state, x8h7_reset_show and x8h7_reset_store:
\* !data || !data->nrst_gpio_desc || !data->boot0_gpio_desc
DataValid == drvdata /\ data.nrst = "desc" /\ data.boot0 = "desc"

ResetStateNrst_inverted(reset) == IF reset THEN 1 ELSE 0

\* x8h7_reset_state(data, reset): value given to gpiod_set_value for nrst
ResetStateNrst(reset) == IF reset THEN 0 ELSE 1

ResetStateBoot0_same(reset) == IF reset THEN 0 ELSE 1

\* x8h7_reset_state(data, reset): value given to gpiod_set_value for boot0
ResetStateBoot0(reset) == IF reset THEN 1 ELSE 0

ReportedMode_default(nrst_val, boot0_val) ==
    IF nrst_val = 0 /\ boot0_val = 1 THEN 0
    ELSE IF nrst_val = 1 /\ boot0_val = 0 THEN 1
    ELSE 0 - 1

\* x8h7_reset_show: reported_mode from the two values read
ReportedMode(nrst_val, boot0_val) ==
    IF nrst_val = 0 /\ boot0_val = 1 THEN 0
    ELSE IF nrst_val = 1 /\ boot0_val = 0 THEN 1
    ELSE 2

StoreDispatch_swapped(r) ==
    IF r.err # 0 THEN "err"
    ELSE IF r.value = 0 THEN "run"
    ELSE IF r.value = 1 THEN "reset"
    ELSE "invalid"

StoreDispatch_else(r) ==
    IF r.err # 0 THEN "err"
    ELSE IF r.value = 0 THEN "reset"
    ELSE "run"

\* x8h7_reset_store: what the parsed input selects
StoreDispatch(r) ==
    IF r.err # 0 THEN "err"
    ELSE IF r.value = 0 THEN "reset"
    ELSE IF r.value = 1 THEN "run"
    ELSE "invalid"

RemoveValue_swapped(active_low) == IF active_low THEN 0 ELSE 1

RemoveValue_plain(active_low) == 0

\* x8h7_rst_remove: gpiod_is_active_low(desc) ? 1 : 0
RemoveValue(active_low) == IF active_low THEN 1 ELSE 0

\* values x8h7_rst_probe drives after each acquisition
ProbeNrstValue == 1
ProbeBoot0Value == 0

DevresRelease_leak(h) == h

\* devm-managed descriptors are released when probe fails or remove returns
DevresRelease(h) == {}

-----------------------------------------------------------------------------
(* State *)

NullData == [nrst |-> "NULL", boot0 |-> "NULL"]

IdleCaller == [pc |-> "idle", buf |-> <<>>, val |-> 0, ret |-> 0, seen |-> "none"]

UnboundPcs == {"unbound", "removed", "failed_alloc", "failed_nrst",
               "failed_boot0", "failed_sysfs"}

\* the pair of values a show would read now
NrstValue == gpiod_get_value("nrst")
Boot0Value == gpiod_get_value("boot0")

Init ==
    /\ pc = "unbound"
    /\ al \in [Lines -> BOOLEAN]
    /\ phys \in [Lines -> 0..1]
    /\ held = {}
    /\ data = NullData
    /\ drvdata = FALSE
    /\ published = FALSE
    /\ probeRet = 0
    /\ probeLog = <<>>
    /\ lastCmd = "none"
    /\ caller = [t \in Callers |-> IdleCaller]

-----------------------------------------------------------------------------
(* x8h7_rst_probe *)

\* what devm_gpiod_get answers: 0 for the descriptor, else an errno
AcqOutcomes(l) == IF l \in held THEN {EBUSY} ELSE {0} \cup AcqErrors

\* probe returns an error: the driver core releases the devm resources and
\* clears drvdata
ProbeFail(where, e) ==
    /\ pc' = where
    /\ probeRet' = 0 - e
    /\ held' = DevresRelease(held)
    /\ drvdata' = FALSE
    /\ published' = FALSE

\* entry, devm_kzalloc
x8h7_rst_probe_alloc ==
    /\ pc \in UnboundPcs
    /\ probeLog' = <<>>
    /\ \/ /\ pc' = "p_get_nrst"
          /\ data' = NullData
          /\ probeRet' = 0
          /\ UNCHANGED <<held, drvdata, published>>
       \/ /\ ProbeFail("failed_alloc", ENOMEM)
          /\ UNCHANGED data
    /\ UNCHANGED <<al, phys, lastCmd, caller>>

\* data->nrst_gpio_desc = devm_gpiod_get(dev, "nrst", GPIOD_OUT_HIGH)
x8h7_rst_probe_get_nrst ==
    /\ pc = "p_get_nrst"
    /\ \E e \in AcqOutcomes("nrst") :
          IF e = 0
          THEN /\ pc' = "p_set_nrst"
               /\ held' = held \cup {"nrst"}
               /\ data' = [data EXCEPT !.nrst = "desc"]
               /\ phys' = [phys EXCEPT !["nrst"] = RawOf(al["nrst"], GPIOD_OUT_HIGH)]
               /\ probeLog' = Append(probeLog, <<"nrst", GPIOD_OUT_HIGH>>)
               /\ UNCHANGED <<drvdata, published, probeRet>>
          ELSE /\ ProbeFail("failed_nrst", e)
               /\ data' = [data EXCEPT !.nrst = "ERR"]
               /\ UNCHANGED <<phys, probeLog>>
    /\ UNCHANGED <<al, lastCmd, caller>>

\* gpiod_set_value(data->nrst_gpio_desc, 1)
x8h7_rst_probe_set_nrst ==
    /\ pc = "p_set_nrst"
    /\ pc' = "p_get_boot0"
    /\ phys' = [phys EXCEPT !["nrst"] = RawOf(al["nrst"], ProbeNrstValue)]
    /\ probeLog' = Append(probeLog, <<"nrst", ProbeNrstValue>>)
    /\ UNCHANGED <<al, held, data, drvdata, published, probeRet, lastCmd, caller>>

x8h7_rst_probe_get_boot0_early ==
    /\ pc = "p_get_boot0"
    /\ pc' = "p_set_boot0"
    /\ held' = held \cup {"boot0"}
    /\ data' = [data EXCEPT !.boot0 = "desc"]
    /\ phys' = [phys EXCEPT !["boot0"] = RawOf(al["boot0"], GPIOD_OUT_HIGH)]
    /\ probeLog' = Append(probeLog, <<"boot0", GPIOD_OUT_HIGH>>)
    /\ drvdata' = TRUE
    /\ published' = TRUE
    /\ UNCHANGED <<al, probeRet, lastCmd, caller>>

\* data->boot0_gpio_desc = devm_gpiod_get(dev, "boot0", GPIOD_OUT_HIGH)
x8h7_rst_probe_get_boot0 ==
    /\ pc = "p_get_boot0"
    /\ \E e \in AcqOutcomes("boot0") :
          IF e = 0
          THEN /\ pc' = "p_set_boot0"
               /\ held' = held \cup {"boot0"}
               /\ data' = [data EXCEPT !.boot0 = "desc"]
               /\ phys' = [phys EXCEPT !["boot0"] = RawOf(al["boot0"], GPIOD_OUT_HIGH)]
               /\ probeLog' = Append(probeLog, <<"boot0", GPIOD_OUT_HIGH>>)
               /\ UNCHANGED <<drvdata, published, probeRet>>
          ELSE /\ ProbeFail("failed_boot0", e)
               /\ data' = [data EXCEPT !.boot0 = "ERR"]
               /\ UNCHANGED <<phys, probeLog>>
    /\ UNCHANGED <<al, lastCmd, caller>>

x8h7_rst_probe_set_boot0_skipped ==
    /\ pc = "p_set_boot0"
    /\ pc' = "p_publish"
    /\ UNCHANGED <<al, phys, probeLog, held, data, drvdata, published, probeRet,
                   lastCmd, caller>>

\* gpiod_set_value(data->boot0_gpio_desc, 0)
x8h7_rst_probe_set_boot0 ==
    /\ pc = "p_set_boot0"
    /\ pc' = "p_publish"
    /\ phys' = [phys EXCEPT !["boot0"] = RawOf(al["boot0"], ProbeBoot0Value)]
    /\ probeLog' = Append(probeLog, <<"boot0", ProbeBoot0Value>>)
    /\ UNCHANGED <<al, held, data, drvdata, published, probeRet, lastCmd, caller>>

x8h7_rst_probe_publish_unchecked ==
    /\ pc = "p_publish"
    /\ pc' = "attached"
    /\ drvdata' = TRUE
    /\ probeRet' = 0
    /\ \E e \in {0} \cup PublishErrors :
          /\ published' = (e = 0)
          /\ lastCmd' = IF e = 0 THEN "probe" ELSE lastCmd
    /\ UNCHANGED <<al, phys, held, data, probeLog, caller>>

\* platform_set_drvdata; ret = sysfs_create_group(...); if (ret) return ret
x8h7_rst_probe_publish ==
    /\ pc = "p_publish"
    /\ \E e \in {0} \cup PublishErrors :
          IF e = 0
          THEN /\ pc' = "attached"
               /\ drvdata' = TRUE
               /\ published' = TRUE
               /\ probeRet' = 0
               /\ lastCmd' = "probe"
               /\ UNCHANGED held
          ELSE /\ ProbeFail("failed_sysfs", e)
               /\ UNCHANGED lastCmd
    /\ UNCHANGED <<al, phys, data, probeLog, caller>>

-----------------------------------------------------------------------------
(* x8h7_rst_remove *)

x8h7_rst_remove_unpublish_late ==
    /\ pc = "attached"
    /\ pc' = "r_nrst"
    /\ UNCHANGED <<al, phys, held, data, drvdata, published, probeRet, probeLog,
                   lastCmd, caller>>

\* sysfs_remove_group: from here no new show/store starts; the call returns
\* once the calls already running have returned
x8h7_rst_remove_unpublish ==
    /\ pc = "attached"
    /\ pc' = "r_nrst"
    /\ published' = FALSE
    /\ UNCHANGED <<al, phys, held, data, drvdata, probeRet, probeLog, lastCmd,
                   caller>>

\* if (data->nrst_gpio_desc) gpiod_set_value(nrst, active_low ? 1 : 0)
x8h7_rst_remove_set_nrst ==
    /\ pc = "r_nrst"
    /\ \A t \in Callers : caller[t].pc = "idle"
    /\ pc' = "r_boot0"
    /\ phys' = IF data.nrst # "NULL"
               THEN [phys EXCEPT !["nrst"] =
                        RawOf(al["nrst"], RemoveValue(gpiod_is_active_low("nrst")))]
               ELSE phys
    /\ UNCHANGED <<al, held, data, drvdata, published, probeRet, probeLog,
                   lastCmd, caller>>

\* if (data->boot0_gpio_desc) gpiod_set_value(boot0, active_low ? 1 : 0)
x8h7_rst_remove_set_boot0 ==
    /\ pc = "r_boot0"
    /\ pc' = "r_return"
    /\ phys' = IF data.boot0 # "NULL"
               THEN [phys EXCEPT !["boot0"] =
                        RawOf(al["boot0"], RemoveValue(gpiod_is_active_low("boot0")))]
               ELSE phys
    /\ UNCHANGED <<al, held, data, drvdata, published, probeRet, probeLog,
                   lastCmd, caller>>

\* return 0; the driver core releases the devm resources and clears drvdata
x8h7_rst_remove_return ==
    /\ pc = "r_return"
    /\ pc' = "removed"
    /\ held' = DevresRelease(held)
    /\ drvdata' = FALSE
    /\ UNCHANGED <<al, phys, data, published, probeRet, probeLog, lastCmd, caller>>

-----------------------------------------------------------------------------
(* x8h7_reset_show *)

ShowRunning(t) == caller[t].pc \in {"show_nrst", "show_boot0"}

\* a store that still has a line to write
StoreWriting(t) == caller[t].pc \in {"store_nrst", "store_boot0"}

\* a store that has been entered and has not returned
StoreRunning(t) == caller[t].pc \in {"store_nrst", "store_boot0", "store_ret"}

\* the body of show from its entry: the guard on data
ShowCall(t) ==
    /\ caller[t].pc = "idle"
    /\ caller' = [caller EXCEPT ![t] =
          IF DataValid
          THEN [IdleCaller EXCEPT !.pc = "show_nrst", !.seen = lastCmd]
          ELSE [IdleCaller EXCEPT !.pc = "show_ret", !.ret = 0 - EINVAL]]
    /\ UNCHANGED <<pc, al, phys, held, data, drvdata, published, probeRet,
                   probeLog, lastCmd>>

\* show is entered through the published attribute
x8h7_reset_show_enter(t) == published /\ ShowCall(t)

\* nrst_current_phys_val = gpiod_get_value(data->nrst_gpio_desc)
x8h7_reset_show_get_nrst(t) ==
    /\ caller[t].pc = "show_nrst"
    /\ caller' = [caller EXCEPT ![t].pc = "show_boot0",
                                ![t].val = gpiod_get_value("nrst")]
    /\ UNCHANGED <<pc, al, phys, held, data, drvdata, published, probeRet,
                   probeLog, lastCmd>>

x8h7_reset_show_get_boot0_repair(t) ==
    /\ caller[t].pc = "show_boot0"
    /\ LET mode == ReportedMode(caller[t].val, gpiod_get_value("boot0"))
           out  == sysfs_emit(mode)
       IN  /\ caller' = [caller EXCEPT ![t].pc = "show_ret",
                                       ![t].val = 0,
                                       ![t].buf = out,
                                       ![t].ret = Len(out)]
           /\ phys' = IF mode = 2
                      THEN [l \in Lines |->
                              RawOf(al[l], IF l = "nrst" THEN ResetStateNrst(TRUE)
                                           ELSE ResetStateBoot0(TRUE))]
                      ELSE phys
    /\ UNCHANGED <<pc, al, held, data, drvdata, published, probeRet, probeLog,
                   lastCmd>>

\* boot0_current_phys_val = gpiod_get_value(...); classify; sysfs_emit
x8h7_reset_show_get_boot0(t) ==
    /\ caller[t].pc = "show_boot0"
    /\ LET out == sysfs_emit(ReportedMode(caller[t].val, gpiod_get_value("boot0")))
       IN  caller' = [caller EXCEPT ![t].pc = "show_ret",
                                    ![t].val = 0,
                                    ![t].buf = out,
                                    ![t].ret = Len(out)]
    /\ UNCHANGED <<pc, al, phys, held, data, drvdata, published, probeRet,
                   probeLog, lastCmd>>

-----------------------------------------------------------------------------
(* x8h7_reset_store *)

\* a show that is reading while a store begins no longer sees a settled pair
Disturb(c) == IF c.pc \in {"show_nrst", "show_boot0"}
              THEN [c EXCEPT !.seen = "none"] ELSE c

\* the body of store from its entry: the guard on data, kstrtol, the choice
\* of the mode
StoreCall(t, input) ==
    /\ caller[t].pc = "idle"
    /\ LET r   == kstrtol(input)
           sel == StoreDispatch(r)
       IN  IF ~DataValid
           THEN /\ caller' = [caller EXCEPT ![t] =
                      [IdleCaller EXCEPT !.pc = "store_ret", !.buf = input,
                                         !.ret = 0 - EINVAL]]
                /\ UNCHANGED lastCmd
           ELSE IF sel = "err"
           THEN /\ caller' = [caller EXCEPT ![t] =
                      [IdleCaller EXCEPT !.pc = "store_ret", !.buf = input,
                                         !.ret = 0 - r.err]]
                /\ UNCHANGED lastCmd
           ELSE IF sel = "invalid"
           THEN /\ caller' = [caller EXCEPT ![t] =
                      [IdleCaller EXCEPT !.pc = "store_ret", !.buf = input,
                                         !.ret = 0 - EINVAL]]
                /\ UNCHANGED lastCmd
           ELSE /\ caller' = [u \in Callers |->
                      IF u = t
                      THEN [IdleCaller EXCEPT !.pc = "store_nrst", !.buf = input,
                               !.val = IF sel = "reset" THEN 1 ELSE 0]
                      ELSE Disturb(caller[u])]
                /\ lastCmd' = IF \E u \in Callers \ {t} : StoreWriting(u)
                              THEN "racing" ELSE "busy"
    /\ UNCHANGED <<pc, al, phys, held, data, drvdata, published, probeRet, probeLog>>

\* store is entered through the published attribute
StoreEnter(t, input) == published /\ StoreCall(t, input)

\* any caller may enter at any time
x8h7_reset_store_enter(t) == \E input \in Inputs : StoreEnter(t, input)

\* Writes serialised by the host: no store is entered while another runs
x8h7_reset_store_enter_serial(t) ==
    /\ \A u \in Callers : ~StoreRunning(u)
    /\ \E input \in Inputs : StoreEnter(t, input)

x8h7_reset_state_set_nrst_boot0_first(t) ==
    /\ caller[t].pc = "store_nrst"
    /\ caller' = [caller EXCEPT ![t].pc = "store_boot0"]
    /\ phys' = IF DataValid
               THEN [phys EXCEPT !["boot0"] =
                        RawOf(al["boot0"], ResetStateBoot0(caller[t].val = 1))]
               ELSE phys
    /\ UNCHANGED <<pc, al, held, data, drvdata, published, probeRet, probeLog,
                   lastCmd>>

\* x8h7_reset_state: gpiod_set_value(data->nrst_gpio_desc, reset ? 0 : 1)
x8h7_reset_state_set_nrst(t) ==
    /\ caller[t].pc = "store_nrst"
    /\ caller' = [caller EXCEPT ![t].pc = "store_boot0"]
    /\ phys' = IF DataValid
               THEN [phys EXCEPT !["nrst"] =
                        RawOf(al["nrst"], ResetStateNrst(caller[t].val = 1))]
               ELSE phys
    /\ UNCHANGED <<pc, al, held, data, drvdata, published, probeRet, probeLog,
                   lastCmd>>

\* x8h7_reset_state: gpiod_set_value(data->boot0_gpio_desc, reset ? 1 : 0);
\* then store returns count
x8h7_reset_state_set_boot0(t) ==
    /\ caller[t].pc = "store_boot0"
    /\ caller' = [caller EXCEPT ![t].pc = "store_ret",
                                ![t].ret = Len(caller[t].buf)]
    /\ phys' = IF DataValid
               THEN [phys EXCEPT !["boot0"] =
                        RawOf(al["boot0"], ResetStateBoot0(caller[t].val = 1))]
               ELSE phys
    /\ lastCmd' = IF lastCmd = "busy"
                  THEN (IF kstrtol(caller[t].buf).value = 0 THEN "store0" ELSE "store1")
                  ELSE lastCmd
    /\ UNCHANGED <<pc, al, held, data, drvdata, published, probeRet, probeLog>>

\* show or store hands its result to the caller
Return(t) ==
    /\ caller[t].pc \in {"show_ret", "store_ret"}
    /\ caller' = [caller EXCEPT ![t] = IdleCaller]
    /\ UNCHANGED <<pc, al, phys, held, data, drvdata, published, probeRet,
                   probeLog, lastCmd>>

-----------------------------------------------------------------------------
(* Specifications *)

Lifecycle ==
    \/ x8h7_rst_probe_alloc
    \/ x8h7_rst_probe_get_nrst
    \/ x8h7_rst_probe_set_nrst
    \/ x8h7_rst_probe_get_boot0
    \/ x8h7_rst_probe_set_boot0
    \/ x8h7_rst_probe_publish
    \/ x8h7_rst_remove_unpublish
    \/ x8h7_rst_remove_set_nrst
    \/ x8h7_rst_remove_set_boot0
    \/ x8h7_rst_remove_return

Access(t) ==
    \/ x8h7_reset_show_enter(t)
    \/ x8h7_reset_show_get_nrst(t)
    \/ x8h7_reset_show_get_boot0(t)
    \/ x8h7_reset_state_set_nrst(t)
    \/ x8h7_reset_state_set_boot0(t)
    \/ Return(t)

Next ==
    \/ Lifecycle
    \/ \E t \in Callers : Access(t) \/ x8h7_reset_store_enter(t)

Spec == Init /\ [][Next]_vars

NextSerial ==
    \/ Lifecycle
    \/ \E t \in Callers : Access(t) \/ x8h7_reset_store_enter_serial(t)

\* the same driver with the host serialising the Writes
SpecSerial == Init /\ [][NextSerial]_vars

\* show called on a device that does not hold both lines
x8h7_reset_show_unbound(t) == held # Lines /\ ShowCall(t)

\* store called on a device that does not hold both lines
x8h7_reset_store_unbound(t) ==
    held # Lines /\ \E input \in Inputs : StoreCall(t, input)

NextDirect ==
    \/ Next
    \/ \E t \in Callers : x8h7_reset_show_unbound(t) \/ x8h7_reset_store_unbound(t)

\* the same driver with show and store also called outside the lifetime of
\* the attribute
SpecDirect == Init /\ [][NextDirect]_vars

-----------------------------------------------------------------------------
(* Vocabulary of the properties *)

\* the pair of logical values (reset_line, boot_select_line) a Read would see
LinePair == <<NrstValue, Boot0Value>>

HeldInResetPair == <<0, 1>>
RunningPair == <<1, 0>>

\* the command a written buffer stands for is 0 or 1
ValidCommand(buf) == LET r == kstrtol(buf) IN r.err = 0 /\ r.value \in {0, 1}

\* a show has returned text to caller t
ShowDone(t) == caller[t].pc = "show_ret" /\ caller[t].ret > 0

\* the number a show handed to caller t, parsed back from the text
ShowValue(t) == kstrtol(caller[t].buf).value

\* a store has returned to caller t
StoreDone(t) == caller[t].pc = "store_ret"

ProbePcs == {"p_get_nrst", "p_set_nrst", "p_get_boot0", "p_set_boot0", "p_publish"}

-----------------------------------------------------------------------------
(* C1 *)

\* C1: a Read entered after a Write(c), c in {0,1}, has completed, with no
\* other Write overlapping that Write or entered since, returns c.
C1_WriteThenRead ==
    \A t \in Callers :
        ShowDone(t) =>
            /\ caller[t].seen = "store0" => caller[t].buf = <<"0", "\n">>
            /\ caller[t].seen = "store1" => caller[t].buf = <<"1", "\n">>

\* a Read has returned 0 after a Write of 0
C1_Witness ==
    \E t \in Callers :
        ShowDone(t) /\ caller[t].seen = "store0" /\ ShowValue(t) = 0

-----------------------------------------------------------------------------
(* C2 *)

\* caller t enters store with a buffer that is no valid command
InvalidStoreStep(t) ==
    /\ caller[t].pc = "idle"
    /\ caller'[t].pc \in {"store_nrst", "store_boot0", "store_ret"}
    /\ ~ValidCommand(caller'[t].buf)

-----------------------------------------------------------------------------
(* C3 *)

\* C3: after a successful attach and before any Write, the lines are at
\* (reset 1, boot-select 0) and every Read returns 1.
C3_ReadAfterAttach ==
    /\ pc = "attached" /\ lastCmd = "probe" => LinePair = RunningPair
    /\ \A t \in Callers :
          ShowDone(t) /\ caller[t].seen = "probe" => caller[t].buf = <<"1", "\n">>

\* a Read has returned, entered after attach with no Write since
C3_Witness ==
    \E t \in Callers : ShowDone(t) /\ caller[t].seen = "probe" /\ ShowValue(t) = 1

-----------------------------------------------------------------------------
(* C4 *)

-----------------------------------------------------------------------------
(* C5 *)

-----------------------------------------------------------------------------
(* C6 *)

\* C6 as stated: a successful attach has driven (reset 0, boot-select 1)
\* and after that (reset 1, boot-select 0).
C6_StartupSequence ==
    pc = "attached" =>
        \E i, j, k, m \in 1..Len(probeLog) :
            /\ i < k /\ j < k /\ k < m
            /\ probeLog[i] = <<"nrst", 0>>
            /\ probeLog[j] = <<"boot0", 1>>
            /\ probeLog[k] = <<"nrst", 1>>
            /\ probeLog[m] = <<"boot0", 0>>

-----------------------------------------------------------------------------
(* C7 *)

\* C7: while attach is running no Read or Write can be entered and none is
\* running; the interface exists only once all four attach-time line writes
\* have been made.
C7_PublishedAfterWrites ==
    /\ pc \in ProbePcs =>
          ~published /\ \A t \in Callers : caller[t].pc = "idle"
    /\ published => pc = "attached" /\ Len(probeLog) = 4

\* a caller is inside the interface after a complete attach
C7_Witness ==
    /\ published
    /\ probeLog = <<<<"nrst", 1>>, <<"nrst", 1>>, <<"boot0", 1>>, <<"boot0", 0>>>>
    /\ \E t \in Callers : caller[t].pc = "show_nrst"

-----------------------------------------------------------------------------
(* C8 *)

\* C8: with the Writes serialised, whenever the device is attached the line
\* pair is canonical unless some Write stands between its two line writes.
C8_CanonicalWhenQuiet ==
    pc \in {"attached", "r_nrst"} =>
        \/ LinePair \in {HeldInResetPair, RunningPair}
        \/ \E t \in Callers : caller[t].pc = "store_boot0"

\* a Write of 0 has completed and left the Held-In-Reset pair
C8_Witness ==
    /\ pc = "attached"
    /\ \E t \in Callers : StoreDone(t) /\ caller[t].ret > 0
    /\ \A t \in Callers : ~StoreWriting(t)
    /\ lastCmd = "store0"
    /\ LinePair = HeldInResetPair

-----------------------------------------------------------------------------
(* C9 *)

\* C9: when the acquisition of boot0 fails, probe returns the acquisition
\* error, nothing is published, and no line stays requested, so that the
\* provider can grant both lines to the next attach.
C9_SecondAcquireFails ==
    pc = "failed_boot0" =>
        /\ \E e \in AcqErrors : probeRet = 0 - e
        /\ ~published /\ ~drvdata
        /\ held = {}
        /\ \A l \in Lines : 0 \in AcqOutcomes(l)

\* the acquisition of boot0 has failed after nrst had been acquired
C9_Witness ==
    /\ pc = "failed_boot0"
    /\ data.nrst = "desc" /\ data.boot0 = "ERR"
    /\ probeRet = 0 - EBUSY

-----------------------------------------------------------------------------
(* C10 *)

\* C10: when sysfs_create_group fails, probe returns that error and the
\* device is as if never attached: not published, no caller inside the
\* interface, no line requested; a device counts as attached only with the
\* interface published.
C10_PublishFails ==
    /\ pc = "failed_sysfs" =>
          /\ \E e \in PublishErrors : probeRet = 0 - e
          /\ ~published /\ ~drvdata
          /\ held = {}
          /\ \A t \in Callers : caller[t].pc = "idle"
    /\ pc = "attached" => published /\ probeRet = 0

\* publishing has failed after both lines had been acquired and driven
C10_Witness ==
    /\ pc = "failed_sysfs"
    /\ Len(probeLog) = 4
    /\ probeRet = 0 - EEXIST

-----------------------------------------------------------------------------
(* C11 *)

\* caller t's show reads its second line and returns in this step
ShowReturnStep(t) == caller[t].pc = "show_boot0" /\ caller'[t].pc = "show_ret"

-----------------------------------------------------------------------------
(* C12 *)

\* C12: a Read or Write entered while the driver does not hold both lines
\* returns EINVAL at once and changes no line level.
C12_NotReadyFails ==
    [][\A t \in Callers :
          (held # Lines /\ caller[t].pc = "idle" /\ caller'[t].pc # "idle") =>
              /\ caller'[t].pc \in {"show_ret", "store_ret"}
              /\ caller'[t].ret = 0 - EINVAL
              /\ phys' = phys]_vars

\* a Write of a valid command after detach has failed with EINVAL
C12_Witness ==
    /\ pc = "removed"
    /\ \E t \in Callers :
          StoreDone(t) /\ ValidCommand(caller[t].buf) /\ caller[t].ret = 0 - EINVAL

-----------------------------------------------------------------------------
(* C13 *)

\* C13 as stated: with the Writes serialised, so that the lines are in a
\* canonical pair before each Write, no Read returns 2.
C13_ReadNeverTransient ==
    \A t \in Callers : ShowDone(t) => ShowValue(t) \in {0, 1}

-----------------------------------------------------------------------------
(* C14 *)

\* remove has written a line and has not returned
RemoveWrote == pc \in {"r_boot0", "r_return"}

\* C14: once remove has written a line, the interface is unpublished, no
\* show or store is running or starts, and until remove returns the line
\* levels change only by remove's own write of boot0.
C14_DetachWritesLast ==
    [][RemoveWrote =>
          /\ ~published
          /\ \A t \in Callers : caller[t].pc = "idle" /\ caller'[t].pc = "idle"
          /\ phys' # phys => pc = "r_boot0" /\ pc' = "r_return"]_vars

\* remove has written both lines of a device a Write had left Running
C14_Witness ==
    /\ pc = "r_return"
    /\ lastCmd = "store1"
    /\ ~al["nrst"] /\ ~al["boot0"]
    /\ phys = [l \in Lines |-> 0]

-----------------------------------------------------------------------------
(* C15 *)

\* caller t takes a step of show
ShowStep(t) ==
    /\ caller'[t].pc # caller[t].pc
    /\ \/ caller[t].pc \in {"show_nrst", "show_boot0", "show_ret"}
       \/ caller'[t].pc \in {"show_nrst", "show_ret"}

\* C15: no step of a Read changes a line level, whatever the Read returns;
\* a Read that returns 2 leaves the pair it classified as it was.
C15_ReadChangesNothing ==
    [][\A t \in Callers : ShowStep(t) => phys' = phys]_vars

\* a Read has returned 2 with no Write running, and the pair is still (0,0)
C15_Witness ==
    /\ \E t \in Callers : ShowDone(t) /\ ShowValue(t) = 2
    /\ \A u \in Callers : ~StoreRunning(u)
    /\ LinePair = <<0, 0>>

-----------------------------------------------------------------------------
(* C16 *)

\* the canonical pair a written buffer asks for
PairOf(buf) == IF kstrtol(buf).value = 0 THEN HeldInResetPair ELSE RunningPair

\* a Write of a valid command has made both its line writes
StoreWritten(t) == StoreDone(t) /\ caller[t].ret > 0

\* C16 as stated: when two Writes of valid commands have overlapped and both
\* have completed, the line pair is the canonical pair of one of the two
\* commands.
C16_ConcurrentWritesSerialisable ==
    \A t, u \in Callers :
        (t # u /\ lastCmd = "racing" /\ StoreWritten(t) /\ StoreWritten(u)) =>
            LinePair \in {PairOf(caller[t].buf), PairOf(caller[u].buf)}

-----------------------------------------------------------------------------
(* C17 *)

\* caller t's store makes its first / its second line write in this step
FirstWriteStep(t) == caller[t].pc = "store_nrst" /\ caller'[t].pc = "store_boot0"
SecondWriteStep(t) == caller[t].pc = "store_boot0" /\ caller'[t].pc = "store_ret"

\* C17: the first line write of a valid Write sets reset_line and leaves
\* boot_select_line, the second sets boot_select_line and leaves reset_line;
\* so the first write of a Write of 0 takes Running (1,0) to (0,0), and the
\* first write of a Write of 1 takes Held-In-Reset (0,1) to (1,1).
C17_ResetLineFirst ==
    [][\A t \in Callers :
          LET c == kstrtol(caller[t].buf).value
          IN  /\ FirstWriteStep(t) =>
                    /\ phys'["boot0"] = phys["boot0"]
                    /\ NrstValue' = c
                    /\ (c = 0 /\ LinePair = RunningPair) => LinePair' = <<0, 0>>
                    /\ (c = 1 /\ LinePair = HeldInResetPair) => LinePair' = <<1, 1>>
              /\ SecondWriteStep(t) =>
                    /\ phys'["nrst"] = phys["nrst"]
                    /\ Boot0Value' = 1 - c]_vars

\* a Write of 1 stands between its two line writes: reset released,
\* boot-select still at 1
C17_Witness ==
    \E t \in Callers :
        /\ caller[t].pc = "store_boot0"
        /\ kstrtol(caller[t].buf).value = 1
        /\ LinePair = <<1, 1>>

-----------------------------------------------------------------------------
(* C18 *)

\* C18: a line write of a Write(c) made while the lines are at the canonical
\* pair of c changes no line level, and every Write(c) that no other Write
\* overlapped, a second one after a first included, leaves the canonical pair
\* of c for as long as the device stays attached and no Write is entered.
C18_WriteIdempotent ==
    /\ []((pc = "attached" /\ lastCmd = "store0") => LinePair = HeldInResetPair)
    /\ []((pc = "attached" /\ lastCmd = "store1") => LinePair = RunningPair)
    /\ [][\A t \in Callers :
             ((FirstWriteStep(t) \/ SecondWriteStep(t))
                 /\ LinePair = PairOf(caller[t].buf)) => phys' = phys]_vars

\* a second Write of 0 has completed after a first Write of 0 had completed,
\* neither overlapped by another Write, and the pair is Held-In-Reset
C18_Witness ==
    /\ pc = "attached"
    /\ lastCmd = "store0"
    /\ \E t, u \in Callers :
          /\ t # u
          /\ StoreWritten(t) /\ kstrtol(caller[t].buf).value = 0
          /\ StoreWritten(u) /\ kstrtol(caller[u].buf).value = 0
    /\ LinePair = HeldInResetPair

====
